---- MODULE Spec2Model ----
(***************************************************************************)
(* The cart repository adapter of internal/repository/cart_repository.go   *)
(* over the cart_items table, with the three queries of cart.sql as the    *)
(* query boundary.  One action per repository method; each action is the   *)
(* whole method, the query it issues included.                             *)
(* SpecTx runs the transaction helper withTx of internal/repository/tx.go  *)
(* step by step, with the context cancelled at any point; SpecConc runs    *)
(* AddItem from two callers at once; SpecAmounts runs AddItem and GetCart  *)
(* over amounts of every sign.                                             *)
(***************************************************************************)
EXTENDS Integers, Sequences, FiniteSets, TLC

(* ------------------------------------------------------------------ *)
(* Bounds and input sets                                               *)
(* ------------------------------------------------------------------ *)

\* The server clock stops here: at most MaxClock - 1 rows are ever written.
MaxClock == 3

\* uuid.Nil, the all-zero UUID; the other product identifiers are 1, 2.
NilUUID == 0
ProductIDs == {NilUUID, 1, 2}

OwnerIDs == {"", "alice", "bob"}

\* currency.Unit values: the zero Unit (XXX) and two recognised currencies.
XXX == 0
USD == 1
EUR == 2
Units == {XXX, USD, EUR}

\* domain.Money values a caller passes in (amount, currency unit).
Prices == { [Amount |-> 0, Currency |-> EUR],
            [Amount |-> 5, Currency |-> USD] }

\* Errors the query boundary can hand back instead of a result.
QueryErrors == { "context canceled" }

\* Currency codes a writer other than the adapter leaves in price_currency.
ForeignCodes == { "ZZZ", "US" }

\* The goroutines that call the adapter at the same time.
Callers == {"g1", "g2"}

\* db.DBTX values handed to the constructor: the nil interface value, or a
\* connection pool.
NilDBTX == "nil"
DBTXs == {NilDBTX, "pool"}

(* ------------------------------------------------------------------ *)
(* State                                                               *)
(* ------------------------------------------------------------------ *)

VARIABLES
    cart_items,   \* the table: a set of rows
    now,          \* the server's CURRENT_TIMESTAMP
    call,         \* the last repository call: its arguments and what it returned
    repo,         \* the repository the caller holds (what NewCart returned)
    ctx,          \* the context.Context handed to withTx: "live" or "canceled"
    wtx,          \* the withTx activation: where it is, its locals, what it returned
    tx,           \* the transaction the unit of work runs in
    inflight      \* per concurrent caller: the AddItem call it is making

\* The variables of the transaction helper.
txvars == <<ctx, wtx, tx>>

vars == <<cart_items, now, call, repo, ctx, wtx, tx, inflight>>

(* ------------------------------------------------------------------ *)
(* Errors: nil is the empty chain, fmt.Errorf("p: %w", e) prepends p   *)
(* ------------------------------------------------------------------ *)

NoErr == <<>>

Errorf(msg) == <<msg>>

Wrap(prefix, err) == <<prefix>> \o err

(* ------------------------------------------------------------------ *)
(* golang.org/x/text/currency, as the adapter uses it                  *)
(* ------------------------------------------------------------------ *)

\* Unit.String(): the ISO code of a unit; the zero Unit prints as XXX.
UnitString(u) ==
    CASE u = USD -> "USD"
      [] u = EUR -> "EUR"
      [] OTHER   -> "XXX"

\* tag.FixCase("XXX", key): a key of three letters, upper-cased; a key of
\* another length is not well-formed.
FixCase(s) ==
    CASE s \in {"USD", "usd"} -> [ok |-> TRUE,  key |-> "USD"]
      [] s \in {"EUR", "eur"} -> [ok |-> TRUE,  key |-> "EUR"]
      [] s \in {"XXX", "xxx"} -> [ok |-> TRUE,  key |-> "XXX"]
      [] s = "ZZZ"            -> [ok |-> TRUE,  key |-> "ZZZ"]
      [] OTHER                -> [ok |-> Len(s) = 3, key |-> s]

\* currency.ParseISO(s): the unit of a well-formed, known code.
ParseISO(s) ==
    LET f == FixCase(s) IN
    IF ~f.ok THEN [unit |-> XXX, err |-> Errorf("currency: tag is not well-formed")]
    ELSE CASE f.key = "USD" -> [unit |-> USD, err |-> NoErr]
           [] f.key = "EUR" -> [unit |-> EUR, err |-> NoErr]
           [] f.key = "XXX" -> [unit |-> XXX, err |-> NoErr]
           [] OTHER -> [unit |-> XXX, err |-> Errorf("currency: tag is not a recognized currency")]

(* ------------------------------------------------------------------ *)
(* The query boundary: cart.sql over the cart_items table              *)
(* ------------------------------------------------------------------ *)

\* time.Time{} (IsZero); the server clock never shows it.
ZeroTime == 0

\* The rows with the primary key (owner_id, product_id).
RowsAt(table, ownerID, productID) ==
    { r \in table : r.owner_id = ownerID /\ r.product_id = productID }

\* GetCart without its WHERE owner_id = $1.
q_GetCart_AllOwners(table, ownerID) ==
    { [ProductID     |-> r.product_id,
       PriceAmount   |-> r.price_amount,
       PriceCurrency |-> r.price_currency,
       CreatedAt     |-> r.created_at] : r \in table }

\* GetCart with a LIMIT 1: at most one row of the owner comes back.
q_GetCart_Limit1(table, ownerID) ==
    LET S == { [ProductID     |-> r.product_id,
                PriceAmount   |-> r.price_amount,
                PriceCurrency |-> r.price_currency,
                CreatedAt     |-> r.created_at] :
                  r \in { t \in table : t.owner_id = ownerID } }
    IN IF S = {} THEN {} ELSE { CHOOSE r \in S : TRUE }

\* -- name: GetCart :many.  The rows of one owner, as GetCartRow records; the
\* statement has no ORDER BY, so the caller sees them in some order.
q_GetCart(table, ownerID) ==
    { [ProductID     |-> r.product_id,
       PriceAmount   |-> r.price_amount,
       PriceCurrency |-> r.price_currency,
       CreatedAt     |-> r.created_at] : r \in { t \in table : t.owner_id = ownerID } }

\* AddItem with ON CONFLICT ... DO NOTHING: the first price stays.
q_AddItem_DoNothing(table, clock, arg) ==
    IF RowsAt(table, arg.OwnerID, arg.ProductID) # {}
    THEN table
    ELSE table \cup { [owner_id       |-> arg.OwnerID,
                       product_id     |-> arg.ProductID,
                       price_amount   |-> arg.PriceAmount,
                       price_currency |-> arg.PriceCurrency,
                       created_at     |-> clock] }

\* AddItem whose DO UPDATE also sets created_at = CURRENT_TIMESTAMP.
q_AddItem_RefreshCreatedAt(table, clock, arg) ==
    (table \ RowsAt(table, arg.OwnerID, arg.ProductID))
        \cup { [owner_id       |-> arg.OwnerID,
                product_id     |-> arg.ProductID,
                price_amount   |-> arg.PriceAmount,
                price_currency |-> arg.PriceCurrency,
                created_at     |-> clock] }

\* AddItem with ON CONFLICT (product_id): a product already stored, under
\* whatever owner, has its rows repriced instead of a row being inserted.
q_AddItem_ConflictOnProduct(table, clock, arg) ==
    IF \E r \in table : r.product_id = arg.ProductID
    THEN { IF r.product_id = arg.ProductID
           THEN [r EXCEPT !.price_amount   = arg.PriceAmount,
                          !.price_currency = arg.PriceCurrency]
           ELSE r : r \in table }
    ELSE table \cup { [owner_id       |-> arg.OwnerID,
                       product_id     |-> arg.ProductID,
                       price_amount   |-> arg.PriceAmount,
                       price_currency |-> arg.PriceCurrency,
                       created_at     |-> clock] }

\* AddItem that replaces the owner's cart by the one item.
q_AddItem_ReplacesCart(table, clock, arg) ==
    LET kept == RowsAt(table, arg.OwnerID, arg.ProductID) IN
    { r \in table : r.owner_id # arg.OwnerID } \cup
    { [owner_id       |-> arg.OwnerID,
       product_id     |-> arg.ProductID,
       price_amount   |-> arg.PriceAmount,
       price_currency |-> arg.PriceCurrency,
       created_at     |-> IF kept = {} THEN clock
                          ELSE (CHOOSE r \in kept : TRUE).created_at] }

\* AddItem whose DO UPDATE sets price_amount only.
q_AddItem_AmountOnly(table, clock, arg) ==
    IF RowsAt(table, arg.OwnerID, arg.ProductID) # {}
    THEN { IF r \in RowsAt(table, arg.OwnerID, arg.ProductID)
           THEN [r EXCEPT !.price_amount = arg.PriceAmount]
           ELSE r : r \in table }
    ELSE table \cup { [owner_id       |-> arg.OwnerID,
                       product_id     |-> arg.ProductID,
                       price_amount   |-> arg.PriceAmount,
                       price_currency |-> arg.PriceCurrency,
                       created_at     |-> clock] }

\* -- name: AddItem :exec.  INSERT ... ON CONFLICT (owner_id, product_id)
\* DO UPDATE SET price_amount, price_currency; created_at defaults to
\* CURRENT_TIMESTAMP on insert only.
q_AddItem(table, clock, arg) ==
    IF RowsAt(table, arg.OwnerID, arg.ProductID) # {}
    THEN { IF r \in RowsAt(table, arg.OwnerID, arg.ProductID)
           THEN [r EXCEPT !.price_amount   = arg.PriceAmount,
                          !.price_currency = arg.PriceCurrency]
           ELSE r : r \in table }
    ELSE table \cup { [owner_id       |-> arg.OwnerID,
                       product_id     |-> arg.ProductID,
                       price_amount   |-> arg.PriceAmount,
                       price_currency |-> arg.PriceCurrency,
                       created_at     |-> clock] }

\* DeleteItem without its owner_id = $1: the product goes from every cart.
q_DeleteItem_AnyOwner(table, arg) ==
    [table        |-> { r \in table : r.product_id # arg.ProductID },
     rowsAffected |-> Cardinality({ r \in table : r.product_id = arg.ProductID })]

\* -- name: DeleteItem :execrows.  The table without the matching rows, and
\* how many there were.
q_DeleteItem(table, arg) ==
    [table        |-> table \ RowsAt(table, arg.OwnerID, arg.ProductID),
     rowsAffected |-> Cardinality(RowsAt(table, arg.OwnerID, arg.ProductID))]

\* The orders in which a :many query can hand back a set of rows.
Orderings(S) ==
    { s \in [1..Cardinality(S) -> S] :
        \A i, j \in 1..Cardinality(S) : i # j => s[i] # s[j] }

(* ------------------------------------------------------------------ *)
(* Mapping of query rows to domain values                              *)
(* ------------------------------------------------------------------ *)

ZeroItem ==
    [ProductID |-> NilUUID,
     Price     |-> [Amount |-> 0, Currency |-> XXX],
     CreatedAt |-> ZeroTime]

ZeroCart == [OwnerID |-> "", Items |-> <<>>]

\* The mapping that forgets CreatedAt.
mapGetCartRowToDomain_NoCreatedAt(row) ==
    LET parsed == ParseISO(row.PriceCurrency) IN
    IF parsed.err # NoErr
    THEN [item |-> ZeroItem,
          err  |-> Wrap("currency[" \o row.PriceCurrency \o "] is not valid", parsed.err)]
    ELSE [item |-> [ProductID |-> row.ProductID,
                    Price     |-> [Amount |-> row.PriceAmount, Currency |-> parsed.unit],
                    CreatedAt |-> ZeroTime],
          err  |-> NoErr]

mapGetCartRowToDomain(row) ==
    LET parsed == ParseISO(row.PriceCurrency) IN
    IF parsed.err # NoErr
    THEN [item |-> ZeroItem,
          err  |-> Wrap("currency[" \o row.PriceCurrency \o "] is not valid", parsed.err)]
    ELSE [item |-> [ProductID |-> row.ProductID,
                    Price     |-> [Amount |-> row.PriceAmount, Currency |-> parsed.unit],
                    CreatedAt |-> row.CreatedAt],
          err  |-> NoErr]

\* The loop that skips a row it cannot map (continue instead of return).
RECURSIVE mapGetCartRowsToDomain_SkipBad(_)
mapGetCartRowsToDomain_SkipBad(rows) ==
    IF rows = <<>> THEN [items |-> <<>>, err |-> NoErr]
    ELSE LET first == mapGetCartRowToDomain(Head(rows))
             rest  == mapGetCartRowsToDomain_SkipBad(Tail(rows)) IN
         IF first.err # NoErr THEN rest
         ELSE [items |-> <<first.item>> \o rest.items, err |-> NoErr]

RECURSIVE mapGetCartRowsToDomain(_)
mapGetCartRowsToDomain(rows) ==
    IF rows = <<>> THEN [items |-> <<>>, err |-> NoErr]
    ELSE LET first == mapGetCartRowToDomain(Head(rows)) IN
         IF first.err # NoErr
         THEN [items |-> <<>>, err |-> Wrap("mapGetCartRowToDomain", first.err)]
         ELSE LET rest == mapGetCartRowsToDomain(Tail(rows)) IN
              IF rest.err # NoErr THEN rest
              ELSE [items |-> <<first.item>> \o rest.items, err |-> NoErr]

(* ------------------------------------------------------------------ *)
(* The repository methods                                              *)
(* ------------------------------------------------------------------ *)

\* What a call leaves behind: its arguments, the number of queries it issued,
\* the error the query boundary handed it (qerr) and what it returned.  Fields a method does not have keep their zero value.
NoCall ==
    [op |-> "none", dbtx |-> NilDBTX, ownerID |-> "", productID |-> NilUUID,
     price |-> [Amount |-> 0, Currency |-> XXX],
     queries |-> 0, qerr |-> NoErr,
     cart |-> ZeroCart, deleted |-> FALSE, err |-> NoErr]

\* A nil port.CartRepository, and the *cartRepository built over an executor.
NilRepository == [nil |-> TRUE, q |-> NilDBTX, dbtx |-> NilDBTX]

cartRepository(dbtx) == [nil |-> FALSE, q |-> dbtx, dbtx |-> dbtx]

\* NewCart without its nil check.
NewCart_NoNilCheck(dbtx) ==
    [repo |-> cartRepository(dbtx), err |-> NoErr]

\* NewCart: the repository and the error it returns.
NewCart(dbtx) ==
    IF dbtx = NilDBTX
    THEN [repo |-> NilRepository, err |-> Errorf("dbtx is nil")]
    ELSE [repo |-> cartRepository(dbtx), err |-> NoErr]

\* GetCart that hands the query's error back as it is, without the prefix.
GetCartCall_Unwrapped(ownerID, qerr, rows) ==
    LET c == [NoCall EXCEPT !.op = "GetCart", !.ownerID = ownerID] IN
    IF ownerID = ""
    THEN [c EXCEPT !.err = Errorf("ownerID is empty")]
    ELSE IF qerr # NoErr
    THEN [c EXCEPT !.queries = 1, !.qerr = qerr, !.err = qerr]
    ELSE LET mapped == mapGetCartRowsToDomain(rows) IN
         IF mapped.err # NoErr
         THEN [c EXCEPT !.queries = 1, !.err = Wrap("mapGetCartRowsToDomain", mapped.err)]
         ELSE [c EXCEPT !.queries = 1,
                        !.cart = [OwnerID |-> ownerID, Items |-> mapped.items]]

\* GetCart that calls q.GetCart a second time when the first call failed.
GetCartCall_Retry(ownerID, qerr, rows) ==
    LET c == [NoCall EXCEPT !.op = "GetCart", !.ownerID = ownerID] IN
    IF ownerID = ""
    THEN [c EXCEPT !.err = Errorf("ownerID is empty")]
    ELSE IF qerr # NoErr
    THEN [c EXCEPT !.queries = 2, !.qerr = qerr, !.err = Wrap("q.GetCart", qerr)]
    ELSE LET mapped == mapGetCartRowsToDomain(rows) IN
         IF mapped.err # NoErr
         THEN [c EXCEPT !.queries = 1, !.err = Wrap("mapGetCartRowsToDomain", mapped.err)]
         ELSE [c EXCEPT !.queries = 1,
                        !.cart = [OwnerID |-> ownerID, Items |-> mapped.items]]

\* cartRepository.GetCart: qerr is what q.GetCart returns as its error, rows
\* what it returns as its rows.
GetCartCall(ownerID, qerr, rows) ==
    LET c == [NoCall EXCEPT !.op = "GetCart", !.ownerID = ownerID] IN
    IF ownerID = ""
    THEN [c EXCEPT !.err = Errorf("ownerID is empty")]
    ELSE IF qerr # NoErr
    THEN [c EXCEPT !.queries = 1, !.qerr = qerr, !.err = Wrap("q.GetCart", qerr)]
    ELSE LET mapped == mapGetCartRowsToDomain(rows) IN
         IF mapped.err # NoErr
         THEN [c EXCEPT !.queries = 1, !.err = Wrap("mapGetCartRowsToDomain", mapped.err)]
         ELSE [c EXCEPT !.queries = 1,
                        !.cart = [OwnerID |-> ownerID, Items |-> mapped.items]]

\* AddItem without its ownerID check.
AddItemCall_NoOwnerCheck(table, clock, ownerID, item, qerr) ==
    LET c == [NoCall EXCEPT !.op = "AddItem", !.ownerID = ownerID,
                            !.productID = item.ProductID, !.price = item.Price] IN
    IF qerr # NoErr
    THEN [call |-> [c EXCEPT !.queries = 1, !.qerr = qerr, !.err = Wrap("q.AddItem", qerr)],
          table |-> table, clock |-> clock]
    ELSE [call |-> [c EXCEPT !.queries = 1],
          table |-> q_AddItem(table, clock,
                              [OwnerID       |-> ownerID,
                               ProductID     |-> item.ProductID,
                               PriceAmount   |-> item.Price.Amount,
                               PriceCurrency |-> UnitString(item.Price.Currency)]),
          clock |-> clock + 1]

\* AddItem that turns away an amount that is not positive.
AddItemCall_PositiveAmountOnly(table, clock, ownerID, item, qerr) ==
    LET c == [NoCall EXCEPT !.op = "AddItem", !.ownerID = ownerID,
                            !.productID = item.ProductID, !.price = item.Price] IN
    IF ownerID = ""
    THEN [call |-> [c EXCEPT !.err = Errorf("ownerID is empty")],
          table |-> table, clock |-> clock]
    ELSE IF item.Price.Amount <= 0
    THEN [call |-> [c EXCEPT !.err = Errorf("price amount is not positive")],
          table |-> table, clock |-> clock]
    ELSE IF qerr # NoErr
    THEN [call |-> [c EXCEPT !.queries = 1, !.qerr = qerr, !.err = Wrap("q.AddItem", qerr)],
          table |-> table, clock |-> clock]
    ELSE [call |-> [c EXCEPT !.queries = 1],
          table |-> q_AddItem(table, clock,
                              [OwnerID       |-> ownerID,
                               ProductID     |-> item.ProductID,
                               PriceAmount   |-> item.Price.Amount,
                               PriceCurrency |-> UnitString(item.Price.Currency)]),
          clock |-> clock + 1]

\* cartRepository.AddItem: the call record, the table and the clock it leaves.
AddItemCall(table, clock, ownerID, item, qerr) ==
    LET c == [NoCall EXCEPT !.op = "AddItem", !.ownerID = ownerID,
                            !.productID = item.ProductID, !.price = item.Price] IN
    IF ownerID = ""
    THEN [call |-> [c EXCEPT !.err = Errorf("ownerID is empty")],
          table |-> table, clock |-> clock]
    ELSE IF qerr # NoErr
    THEN [call |-> [c EXCEPT !.queries = 1, !.qerr = qerr, !.err = Wrap("q.AddItem", qerr)],
          table |-> table, clock |-> clock]
    ELSE [call |-> [c EXCEPT !.queries = 1],
          table |-> q_AddItem(table, clock,
                              [OwnerID       |-> ownerID,
                               ProductID     |-> item.ProductID,
                               PriceAmount   |-> item.Price.Amount,
                               PriceCurrency |-> UnitString(item.Price.Currency)]),
          clock |-> clock + 1]

\* DeleteItem without its productID check (the nil UUID goes to the query).
DeleteItemCall_NoProductCheck(table, ownerID, productID, qerr) ==
    LET c == [NoCall EXCEPT !.op = "DeleteItem", !.ownerID = ownerID,
                            !.productID = productID] IN
    IF ownerID = ""
    THEN [call |-> [c EXCEPT !.err = Errorf("ownerID is empty")], table |-> table]
    ELSE IF qerr # NoErr
    THEN [call |-> [c EXCEPT !.queries = 1, !.qerr = qerr, !.err = Wrap("q.DeleteItem", qerr)],
          table |-> table]
    ELSE LET res == q_DeleteItem(table, [OwnerID |-> ownerID, ProductID |-> productID]) IN
         [call  |-> [c EXCEPT !.queries = 1, !.deleted = res.rowsAffected > 0],
          table |-> res.table]

\* DeleteItem that reports rowsAffected > 1 instead of > 0.
DeleteItemCall_WrongCount(table, ownerID, productID, qerr) ==
    LET c == [NoCall EXCEPT !.op = "DeleteItem", !.ownerID = ownerID,
                            !.productID = productID] IN
    IF ownerID = ""
    THEN [call |-> [c EXCEPT !.err = Errorf("ownerID is empty")], table |-> table]
    ELSE IF productID = NilUUID
    THEN [call |-> [c EXCEPT !.err = Errorf("productID is empty")], table |-> table]
    ELSE IF qerr # NoErr
    THEN [call |-> [c EXCEPT !.queries = 1, !.qerr = qerr, !.err = Wrap("q.DeleteItem", qerr)],
          table |-> table]
    ELSE LET res == q_DeleteItem(table, [OwnerID |-> ownerID, ProductID |-> productID]) IN
         [call  |-> [c EXCEPT !.queries = 1, !.deleted = res.rowsAffected > 1],
          table |-> res.table]

\* DeleteItem that checks productID before ownerID.
DeleteItemCall_ProductFirst(table, ownerID, productID, qerr) ==
    LET c == [NoCall EXCEPT !.op = "DeleteItem", !.ownerID = ownerID,
                            !.productID = productID] IN
    IF productID = NilUUID
    THEN [call |-> [c EXCEPT !.err = Errorf("productID is empty")], table |-> table]
    ELSE IF ownerID = ""
    THEN [call |-> [c EXCEPT !.err = Errorf("ownerID is empty")], table |-> table]
    ELSE IF qerr # NoErr
    THEN [call |-> [c EXCEPT !.queries = 1, !.qerr = qerr, !.err = Wrap("q.DeleteItem", qerr)],
          table |-> table]
    ELSE LET res == q_DeleteItem(table, [OwnerID |-> ownerID, ProductID |-> productID]) IN
         [call  |-> [c EXCEPT !.queries = 1, !.deleted = res.rowsAffected > 0],
          table |-> res.table]

\* DeleteItem that reports true whenever its statement ran.
DeleteItemCall_AlwaysTrue(table, ownerID, productID, qerr) ==
    LET c == [NoCall EXCEPT !.op = "DeleteItem", !.ownerID = ownerID,
                            !.productID = productID] IN
    IF ownerID = ""
    THEN [call |-> [c EXCEPT !.err = Errorf("ownerID is empty")], table |-> table]
    ELSE IF productID = NilUUID
    THEN [call |-> [c EXCEPT !.err = Errorf("productID is empty")], table |-> table]
    ELSE IF qerr # NoErr
    THEN [call |-> [c EXCEPT !.queries = 1, !.qerr = qerr, !.err = Wrap("q.DeleteItem", qerr)],
          table |-> table]
    ELSE LET res == q_DeleteItem(table, [OwnerID |-> ownerID, ProductID |-> productID]) IN
         [call  |-> [c EXCEPT !.queries = 1, !.deleted = TRUE],
          table |-> res.table]

\* cartRepository.DeleteItem: the call record and the table it leaves.
DeleteItemCall(table, ownerID, productID, qerr) ==
    LET c == [NoCall EXCEPT !.op = "DeleteItem", !.ownerID = ownerID,
                            !.productID = productID] IN
    IF ownerID = ""
    THEN [call |-> [c EXCEPT !.err = Errorf("ownerID is empty")], table |-> table]
    ELSE IF productID = NilUUID
    THEN [call |-> [c EXCEPT !.err = Errorf("productID is empty")], table |-> table]
    ELSE IF qerr # NoErr
    THEN [call |-> [c EXCEPT !.queries = 1, !.qerr = qerr, !.err = Wrap("q.DeleteItem", qerr)],
          table |-> table]
    ELSE LET res == q_DeleteItem(table, [OwnerID |-> ownerID, ProductID |-> productID]) IN
         [call  |-> [c EXCEPT !.queries = 1, !.deleted = res.rowsAffected > 0],
          table |-> res.table]

(* ------------------------------------------------------------------ *)
(* The transaction helper: errors, the driver, withTx's own decisions  *)
(* ------------------------------------------------------------------ *)

\* context.Canceled and pgx.ErrTxClosed.
Canceled == Errorf("context canceled")

ErrTxClosed == Errorf("tx is closed")

\* Failures of the connection that are not cancellations.
IOErrors == { "unexpected EOF" }

\* errors.Join(a, b) of two non-nil errors: both are kept, one after the
\* other, with the newline of its message between them.
Join(a, b) == a \o <<"\n">> \o b

\* The errors joined in err (err itself when it joins nothing).
Joined(err) ==
    LET cuts == {0, Len(err) + 1} \cup { i \in 1..Len(err) : err[i] = "\n" } IN
    { SubSeq(err, a + 1, b - 1) :
        <<a, b>> \in { c \in cuts \X cuts :
                         /\ c[1] < c[2]
                         /\ \A k \in cuts : ~(c[1] < k /\ k < c[2]) } }

\* errors.Is(err, target): unwrapping one of the errors joined in err, prefix
\* by prefix, arrives at target.
Is(err, target) ==
    /\ target # NoErr
    /\ \E e \in Joined(err) :
          /\ Len(e) >= Len(target)
          /\ SubSeq(e, Len(e) - Len(target) + 1, Len(e)) = target

\* A nil *pgxpool.Pool, and the pools withTx is called with.
NilPool == "nil"
Pools == {NilPool, "pool"}

\* The result type T: its zero value, what a unit of work returns when it
\* succeeds, and what it may return next to an error.
zero == ""
Results == {zero, "partial", "result"}

\* withTx that begins a transaction whatever the pool.
UsesExistingTx_Never(pool) == FALSE

\* if pool == nil { return fn(q) }: withTx runs the unit of work in the
\* transaction the caller already has.
UsesExistingTx(pool) == pool = NilPool

\* withTx that hands q to the unit of work on every path.
fnQueries_AlwaysQ(pool) == "q"

\* The Queries the unit of work is handed: q as passed in, or qtx bound to the
\* transaction withTx began.
fnQueries(pool) == IF UsesExistingTx(pool) THEN "q" ELSE "qtx"

\* withTx that goes on to the unit of work whatever pool.Begin returned.
afterBegin_IgnoresErr(err) == "fn"

\* if err != nil { return zero, err } after pool.Begin: where withTx goes next.
afterBegin(err) == IF err # NoErr THEN "done" ELSE "fn"

\* withTx that returns the unit of work's result next to a Commit error.
commitReturn_KeepsResult(result, err) == [result |-> result, txErr |-> err]

\* if err := tx.Commit(ctx); err != nil { return zero, err }; return result, nil
commitReturn(result, err) ==
    IF err # NoErr
    THEN [result |-> zero, txErr |-> err]
    ELSE [result |-> result, txErr |-> NoErr]

\* A deferred function that joins every rollback error, ErrTxClosed included.
deferredTxErr_JoinsClosed(txErr, rollbackErr) ==
    IF rollbackErr # NoErr
    THEN Join(txErr, Wrap("tx.Rollback", rollbackErr))
    ELSE txErr

\* withTx that commits whatever the unit of work returned.
afterFn_AlwaysCommit(fnErr) == "commit"

\* if err != nil { return zero, err } after fn(qtx): where withTx goes next.
afterFn(fnErr) == IF fnErr # NoErr THEN "defer" ELSE "commit"

\* A deferred function that never rolls back.
needsRollback_Never(txErr) == FALSE

\* if txErr != nil in the deferred function: Rollback is called.
needsRollback(txErr) == txErr # NoErr

\* A deferred function that returns the rollback error in place of txErr.
deferredTxErr_ReplacesOriginal(txErr, rollbackErr) ==
    IF rollbackErr # NoErr /\ ~Is(rollbackErr, ErrTxClosed)
    THEN Wrap("tx.Rollback", rollbackErr)
    ELSE txErr

\* The deferred function's assignment to txErr once Rollback has returned.
deferredTxErr(txErr, rollbackErr) ==
    IF rollbackErr # NoErr /\ ~Is(rollbackErr, ErrTxClosed)
    THEN Join(txErr, Wrap("tx.Rollback", rollbackErr))
    ELSE txErr

\* No transaction, and withTx not running.
NoTx == [state |-> "none", mine |-> FALSE, table |-> {}, base |-> {}, start |-> ZeroTime]

Idle ==
    [pc |-> "idle", pool |-> NilPool,
     begins |-> 0, fnCalls |-> 0, fnArg |-> "none", commits |-> 0, rollbacks |-> 0,
     writes |-> <<>>, fnResult |-> zero, fnErr |-> NoErr,
     beginErr |-> NoErr, commitErr |-> NoErr, rollbackErr |-> NoErr,
     canceledAt |-> "never", result |-> zero, txErr |-> NoErr]

\* A caller that is not in a call.  A call in flight has its arguments; a
\* returned one has its call record, the clock at which the store ran its
\* statement, and whether another caller's call was in flight at that moment.
NoFlight ==
    [pc |-> "idle", ownerID |-> "", item |-> ZeroItem, call |-> NoCall,
     appliedAt |-> ZeroTime, overlapped |-> FALSE]

\* The shape of the state: cart_items rows follow the table's columns, the
\* clock is a positive time.
TypeOK ==
    /\ \A r \in cart_items :
          /\ DOMAIN r = {"owner_id", "product_id", "price_amount",
                         "price_currency", "created_at"}
          /\ r.owner_id \in OwnerIDs
          /\ r.product_id \in ProductIDs
          /\ r.price_amount \in Int
          /\ Len(r.price_currency) <= 3
          /\ r.created_at \in 1..(now - 1)
    /\ now \in 1..MaxClock
    /\ call.op \in {"none", "NewCart", "GetCart", "AddItem", "DeleteItem"}
    /\ repo \in {NilRepository} \cup { cartRepository(d) : d \in DBTXs }
    /\ ctx \in {"live", "canceled"}
    /\ wtx.pc \in {"idle", "begin", "fn", "commit", "defer", "done"}
    /\ wtx.pool \in Pools
    /\ wtx.result \in Results
    /\ tx.state \in {"none", "open", "committed", "rolledback"}
    /\ \A g \in Callers : inflight[g].pc \in {"idle", "called", "returned"}
    /\ call.queries \in {0, 1}

(* ------------------------------------------------------------------ *)
(* The state machine                                                   *)
(* ------------------------------------------------------------------ *)

\* What the query boundary returns as its error: nil, or one of QueryErrors.
QueryOutcomes == {NoErr} \cup { Errorf(e) : e \in QueryErrors }

\* The items a caller passes to AddItem; CreatedAt is left unset.
Items ==
    { [ProductID |-> p, Price |-> m, CreatedAt |-> ZeroTime] :
        p \in ProductIDs, m \in Prices }

Init ==
    /\ cart_items = {}
    /\ now = 1
    /\ call = NoCall
    /\ repo = NilRepository
    /\ ctx = "live"
    /\ wtx = Idle
    /\ tx = NoTx
    /\ inflight = [g \in Callers |-> NoFlight]

\* The caller constructs its repository once; a failed construction leaves it
\* holding nil.
Construct ==
    \E dbtx \in DBTXs :
      LET out == NewCart(dbtx) IN
        /\ repo.nil
        /\ repo' = out.repo
        /\ call' = [NoCall EXCEPT !.op = "NewCart", !.dbtx = dbtx, !.err = out.err]
        /\ UNCHANGED <<cart_items, now>>
        /\ UNCHANGED <<txvars, inflight>>

\* Everything GetCart can return for an owner over a table: the query may fail,
\* and when it does not it hands back the owner's rows in some order.
GetCartOutcomes(table, ownerID) ==
    { GetCartCall(ownerID, qerr, rows) :
        qerr \in QueryOutcomes, rows \in Orderings(q_GetCart(table, ownerID)) }

GetCart ==
    \E ownerID \in OwnerIDs :
      \E out \in GetCartOutcomes(cart_items, ownerID) :
        /\ ~repo.nil
        /\ call' = out
        /\ UNCHANGED <<cart_items, now, repo>>
        /\ UNCHANGED <<txvars, inflight>>

AddItem ==
    \E ownerID \in OwnerIDs, item \in Items, qerr \in QueryOutcomes :
      LET out == AddItemCall(cart_items, now, ownerID, item, qerr) IN
        /\ ~repo.nil
        /\ out.clock <= MaxClock
        /\ call' = out.call
        /\ cart_items' = out.table
        /\ now' = out.clock
        /\ UNCHANGED repo
        /\ UNCHANGED <<txvars, inflight>>

DeleteItem ==
    \E ownerID \in OwnerIDs, productID \in ProductIDs, qerr \in QueryOutcomes :
      LET out == DeleteItemCall(cart_items, ownerID, productID, qerr) IN
        /\ ~repo.nil
        /\ call' = out.call
        /\ cart_items' = out.table
        /\ UNCHANGED <<now, repo>>
        /\ UNCHANGED <<txvars, inflight>>

\* A writer other than the adapter inserts a row whose price_currency the
\* schema accepts (VARCHAR(3), no check) and the adapter would never write.
ForeignInsert ==
    \E productID \in ProductIDs \ {NilUUID}, code \in ForeignCodes :
      /\ now < MaxClock
      /\ RowsAt(cart_items, "alice", productID) = {}
      /\ cart_items' = cart_items \cup
            { [owner_id |-> "alice", product_id |-> productID, price_amount |-> 0,
               price_currency |-> code, created_at |-> now] }
      /\ now' = now + 1
      /\ call' = NoCall
      /\ UNCHANGED repo
      /\ UNCHANGED <<txvars, inflight>>

Next == Construct \/ GetCart \/ AddItem \/ DeleteItem \/ ForeignInsert

Spec == Init /\ [][Next]_vars

(* ------------------------------------------------------------------ *)
(* withTx, step by step: the call, pool.Begin, the unit of work's      *)
(* queries and its return, tx.Commit, the deferred function.  The      *)
(* context can be cancelled between any two steps.                     *)
(* ------------------------------------------------------------------ *)

\* A driver that does not look at the context.
DriverOutcomes_IgnoresCtx(c) == {NoErr} \cup { Errorf(e) : e \in IOErrors }

\* What an operation of the driver returns as its error: the cancellation
\* when the context is done, otherwise nil or a connection failure.
DriverOutcomes(c) ==
    IF c = "canceled" THEN {Canceled} ELSE {NoErr} \cup { Errorf(e) : e \in IOErrors }

\* What tx.Rollback returns: ErrTxClosed once the transaction is closed.
RollbackOutcomes(t, c) ==
    IF t.state # "open" THEN {ErrTxClosed} ELSE DriverOutcomes(c)

\* The q.AddItem parameters a unit of work writes with.
UnitWrites ==
    { [OwnerID       |-> o,
       ProductID     |-> p,
       PriceAmount   |-> m.Amount,
       PriceCurrency |-> UnitString(m.Currency)] :
        o \in OwnerIDs \ {""}, p \in ProductIDs \ {NilUUID}, m \in Prices }

\* withTx is called; with a nil pool the unit of work starts at once, in the
\* transaction the caller holds.
withTx ==
    \E pool \in Pools :
      /\ wtx.pc \in {"idle", "done"}
      /\ ctx' = "live"
      /\ IF UsesExistingTx(pool)
         THEN /\ wtx' = [Idle EXCEPT !.pc = "fn", !.pool = pool, !.fnCalls = 1,
                                     !.fnArg = fnQueries(pool)]
              /\ tx' = [state |-> "open", mine |-> FALSE, table |-> cart_items,
                        base |-> cart_items, start |-> now]
         ELSE /\ wtx' = [Idle EXCEPT !.pc = "begin", !.pool = pool]
              /\ tx' = NoTx
      /\ UNCHANGED <<cart_items, now, call, repo, inflight>>

\* tx, err := pool.Begin(ctx); on an error withTx returns (zero, err).
Begin ==
    /\ wtx.pc = "begin"
    /\ \E err \in DriverOutcomes(ctx) :
         IF afterBegin(err) = "done"
         THEN /\ wtx' = [wtx EXCEPT !.pc = "done", !.begins = @ + 1, !.beginErr = err,
                                    !.result = zero, !.txErr = err]
              /\ UNCHANGED tx
         ELSE /\ wtx' = [wtx EXCEPT !.pc = "fn", !.begins = @ + 1, !.beginErr = err,
                                    !.fnCalls = @ + 1, !.fnArg = fnQueries(wtx.pool)]
              /\ tx' = [state |-> "open", mine |-> TRUE, table |-> cart_items,
                        base |-> cart_items, start |-> now]
    /\ UNCHANGED <<cart_items, now, call, repo, inflight, ctx>>

\* withTx that hands back the unit of work's result next to its error.
fnReturned_KeepsResult(w, res, err) ==
    IF UsesExistingTx(w.pool)
    THEN [w EXCEPT !.pc = "done", !.fnResult = res, !.fnErr = err,
                   !.result = res, !.txErr = err]
    ELSE IF afterFn(err) = "defer"
    THEN [w EXCEPT !.pc = "defer", !.fnResult = res, !.fnErr = err,
                   !.result = res, !.txErr = err]
    ELSE [w EXCEPT !.pc = "commit", !.fnResult = res, !.fnErr = err]

\* The unit of work has returned (res, err): withTx hands the pair back as it
\* is on the nil-pool path, otherwise goes on to Commit or returns (zero, err)
\* through the deferred function.
fnReturned(w, res, err) ==
    IF UsesExistingTx(w.pool)
    THEN [w EXCEPT !.pc = "done", !.fnResult = res, !.fnErr = err,
                   !.result = res, !.txErr = err]
    ELSE IF afterFn(err) = "defer"
    THEN [w EXCEPT !.pc = "defer", !.fnResult = res, !.fnErr = err,
                   !.result = zero, !.txErr = err]
    ELSE [w EXCEPT !.pc = "commit", !.fnResult = res, !.fnErr = err]

\* The unit of work issues a write through its Queries and the write succeeds.
\* Queries bound to a transaction write into it; q of a pool writes straight
\* into the table.
fnQuery ==
    /\ wtx.pc = "fn"
    /\ ctx = "live"
    /\ now < MaxClock
    /\ \E arg \in UnitWrites :
         /\ wtx' = [wtx EXCEPT !.writes = Append(@, arg)]
         /\ IF wtx.fnArg = "qtx" \/ wtx.pool = NilPool
            THEN /\ tx' = [tx EXCEPT !.table = q_AddItem(@, tx.start, arg)]
                 /\ UNCHANGED cart_items
            ELSE /\ cart_items' = q_AddItem(cart_items, now, arg)
                 /\ UNCHANGED tx
    /\ now' = now + 1
    /\ UNCHANGED <<call, repo, inflight, ctx>>

\* A query of the unit of work fails (it always does once the context is
\* done) and the unit of work returns the wrapped error.
fnQueryFails ==
    /\ wtx.pc = "fn"
    /\ \E qerr \in DriverOutcomes(ctx) \ {NoErr}, res \in {zero, "partial"} :
         wtx' = fnReturned(wtx, res, Wrap("q.AddItem", qerr))
    /\ UNCHANGED <<cart_items, now, call, repo, inflight, ctx, tx>>

\* The unit of work fails on its own account.
fnFail ==
    /\ wtx.pc = "fn"
    /\ \E res \in {zero, "partial"} :
         wtx' = fnReturned(wtx, res, Errorf("not found"))
    /\ UNCHANGED <<cart_items, now, call, repo, inflight, ctx, tx>>

\* The unit of work returns its result and no error.
fnReturn ==
    /\ wtx.pc = "fn"
    /\ wtx' = fnReturned(wtx, "result", NoErr)
    /\ UNCHANGED <<cart_items, now, call, repo, inflight, ctx, tx>>

\* tx.Commit(ctx).  When it succeeds the transaction's writes become the
\* table; when it fails the driver closes the transaction and nothing of it
\* is applied.  Either way the deferred function runs next.
Commit ==
    /\ wtx.pc = "commit"
    /\ \E err \in DriverOutcomes(ctx) :
         /\ wtx' = [wtx EXCEPT !.pc = "defer", !.commits = @ + 1, !.commitErr = err,
                               !.result = commitReturn(wtx.fnResult, err).result,
                               !.txErr = commitReturn(wtx.fnResult, err).txErr]
         /\ tx' = [tx EXCEPT !.state = IF err = NoErr THEN "committed" ELSE "rolledback"]
         /\ cart_items' = IF err = NoErr THEN tx.table ELSE cart_items
    /\ UNCHANGED <<now, call, repo, inflight, ctx>>

\* The deferred function, then the return.  Rollback on an open transaction
\* ends it without applying it, also when Rollback returns an error (the
\* driver then closes the connection).
deferred ==
    /\ wtx.pc = "defer"
    /\ IF needsRollback(wtx.txErr)
       THEN \E rollbackErr \in RollbackOutcomes(tx, ctx) :
              /\ wtx' = [wtx EXCEPT !.pc = "done", !.rollbacks = @ + 1,
                                    !.rollbackErr = rollbackErr,
                                    !.txErr = deferredTxErr(@, rollbackErr)]
              /\ tx' = [tx EXCEPT !.state = IF @ = "open" THEN "rolledback" ELSE @]
       ELSE /\ wtx' = [wtx EXCEPT !.pc = "done"]
            /\ UNCHANGED tx
    /\ UNCHANGED <<cart_items, now, call, repo, inflight, ctx>>

\* The caller cancels the context while withTx is running.
Cancel ==
    /\ wtx.pc \in {"begin", "fn", "commit", "defer"}
    /\ ctx = "live"
    /\ ctx' = "canceled"
    /\ wtx' = [wtx EXCEPT !.canceledAt = wtx.pc]
    /\ UNCHANGED <<cart_items, now, call, repo, inflight, tx>>

NextTx ==
    \/ withTx \/ Begin
    \/ fnQuery \/ fnQueryFails \/ fnFail \/ fnReturn
    \/ Commit \/ deferred \/ Cancel

SpecTx == Init /\ [][NextTx]_vars

(* ------------------------------------------------------------------ *)
(* Concurrent callers of AddItem on one repository.  The adapter holds *)
(* no lock: between a caller's call and the moment the store runs its  *)
(* statement, and between that moment and the return, other callers    *)
(* run.  The store runs each INSERT ... ON CONFLICT statement whole.   *)
(* ------------------------------------------------------------------ *)

InitConc ==
    /\ cart_items = {}
    /\ now = 1
    /\ call = NoCall
    /\ repo = cartRepository("pool")
    /\ ctx = "live"
    /\ wtx = Idle
    /\ tx = NoTx
    /\ inflight = [g \in Callers |-> NoFlight]

\* A caller calls AddItem.
AddItemCalled(g) ==
    \E ownerID \in OwnerIDs, item \in Items :
      /\ inflight[g].pc = "idle"
      /\ inflight' = [inflight EXCEPT ![g] =
            [NoFlight EXCEPT !.pc = "called", !.ownerID = ownerID, !.item = item]]
      /\ UNCHANGED <<cart_items, now, call, repo, txvars>>

\* The caller's AddItem runs against the table as it is now, and returns.
AddItemReturned(g) ==
    \E qerr \in QueryOutcomes :
      LET f   == inflight[g]
          out == AddItemCall(cart_items, now, f.ownerID, f.item, qerr)
      IN /\ f.pc = "called"
         /\ out.clock <= MaxClock
         /\ cart_items' = out.table
         /\ now' = out.clock
         /\ inflight' = [inflight EXCEPT ![g] =
               [f EXCEPT !.pc = "returned", !.call = out.call, !.appliedAt = now,
                         !.overlapped = \E h \in Callers \ {g} : inflight[h].pc = "called"]]
         /\ UNCHANGED <<call, repo, txvars>>

NextConc == \E g \in Callers : AddItemCalled(g) \/ AddItemReturned(g)

SpecConc == InitConc /\ [][NextConc]_vars

(* ------------------------------------------------------------------ *)
(* AddItem over amounts of every sign.  Money.Amount is a decimal; the *)
(* callers here pass a negative amount, zero and a positive one.       *)
(* ------------------------------------------------------------------ *)

Amounts == {0 - 5, 0, 5}

\* The items these callers pass: a product id that is not nil, any amount.
AmountItems ==
    { [ProductID |-> p, Price |-> [Amount |-> a, Currency |-> USD],
       CreatedAt |-> ZeroTime] :
        p \in ProductIDs \ {NilUUID}, a \in Amounts }

AddItemAnyAmount ==
    \E ownerID \in OwnerIDs, item \in AmountItems, qerr \in QueryOutcomes :
      LET out == AddItemCall(cart_items, now, ownerID, item, qerr) IN
        /\ ~repo.nil
        /\ out.clock <= MaxClock
        /\ call' = out.call
        /\ cart_items' = out.table
        /\ now' = out.clock
        /\ UNCHANGED repo
        /\ UNCHANGED <<txvars, inflight>>

NextAmounts == AddItemAnyAmount \/ GetCart

SpecAmounts == InitConc /\ [][NextAmounts]_vars

(* ------------------------------------------------------------------ *)
(* Vocabulary of the properties                                        *)
(* ------------------------------------------------------------------ *)

Methods == {"GetCart", "AddItem", "DeleteItem"}

\* The call's error came from the query boundary.
QueryFailed(c) ==
    c.err # NoErr /\ Head(c.err) \in {"q.GetCart", "q.AddItem", "q.DeleteItem"}

\* The call returned no error.
Succeeded(c) == c.err = NoErr

\* What GetCart returns for an owner over a table when its query does not fail.
GetCartAnswers(table, ownerID) ==
    { g \in GetCartOutcomes(table, ownerID) : ~QueryFailed(g) }

\* The rows stored under an owner.
RowsOf(table, ownerID) == { r \in table : r.owner_id = ownerID }

ProductsOf(c) == { c.cart.Items[i].ProductID : i \in 1..Len(c.cart.Items) }

(* ------------------------------------------------------------------ *)
(* C1  empty ownerID                                                   *)
(* ------------------------------------------------------------------ *)

\* C1: a GetCart, AddItem or DeleteItem call with an empty ownerID returns the
\* error "ownerID is empty", issues no query, and leaves the table (and the
\* server clock) as they were, whatever the other arguments and the table.
C1_EmptyOwnerRejected ==
    [][ (call'.op \in Methods /\ call'.ownerID = "")
          => /\ call'.err = Errorf("ownerID is empty")
             /\ call'.queries = 0
             /\ call'.cart = ZeroCart
             /\ call'.deleted = FALSE
             /\ cart_items' = cart_items
             /\ now' = now ]_vars

\* A DeleteItem with an empty owner for a product some owner holds.
C1_Witness ==
    /\ call.op = "DeleteItem"
    /\ call.ownerID = ""
    /\ call.err = Errorf("ownerID is empty")
    /\ \E r \in cart_items : r.product_id = call.productID

(* ------------------------------------------------------------------ *)
(* C2  AddItem and the nil product identifier                          *)
(* ------------------------------------------------------------------ *)

\* C2: AddItem with a non-empty ownerID and the nil UUID as item.ProductID
\* fails with "item.ProductID is empty" before any query; so no stored row has
\* a nil product identifier and GetCart never returns an item with one.
C2_NilProductRejected ==
    /\ (call.op = "AddItem" /\ call.ownerID # "" /\ call.productID = NilUUID)
          => (call.err = Errorf("item.ProductID is empty") /\ call.queries = 0)
    /\ \A r \in cart_items : r.product_id # NilUUID
    /\ call.op = "GetCart" => NilUUID \notin ProductsOf(call)

(* ------------------------------------------------------------------ *)
(* C3  DeleteItem and the nil product identifier                       *)
(* ------------------------------------------------------------------ *)

\* C3: DeleteItem with a non-empty ownerID and the nil UUID as productID
\* returns (false, "productID is empty") without issuing the delete query, so
\* no stored row changes.
C3_DeleteNilProductRejected ==
    [][ (call'.op = "DeleteItem" /\ call'.ownerID # "" /\ call'.productID = NilUUID)
          => /\ call'.deleted = FALSE
             /\ call'.err = Errorf("productID is empty")
             /\ call'.queries = 0
             /\ cart_items' = cart_items ]_vars

\* The rejected delete named a key that does hold a row.
C3_Witness ==
    /\ call.op = "DeleteItem"
    /\ call.ownerID # ""
    /\ call.productID = NilUUID
    /\ call.err = Errorf("productID is empty")
    /\ RowsAt(cart_items, call.ownerID, NilUUID) # {}

(* ------------------------------------------------------------------ *)
(* C4  add, then get                                                   *)
(* ------------------------------------------------------------------ *)

\* The call passed the methods' argument checks and its query did not fail.
Served(c) == c.queries = 1 /\ ~QueryFailed(c)

\* C4: when AddItem(owner, item) succeeds for a non-empty owner that had no
\* stored rows and an item with a non-nil ProductID, GetCart(owner) on the
\* table it leaves returns, with no error, exactly one item: its ProductID,
\* amount and currency are the input's and its CreatedAt is not zero.
C4_AddThenGet ==
    [][ ( /\ call'.op = "AddItem"
          /\ Succeeded(call')
          /\ call'.ownerID # ""
          /\ call'.productID # NilUUID
          /\ RowsOf(cart_items, call'.ownerID) = {} )
          => \A g \in GetCartAnswers(cart_items', call'.ownerID) :
                /\ Succeeded(g)
                /\ g.cart.OwnerID = call'.ownerID
                /\ Len(g.cart.Items) = 1
                /\ g.cart.Items[1].ProductID = call'.productID
                /\ g.cart.Items[1].Price = call'.price
                /\ g.cart.Items[1].CreatedAt # ZeroTime ]_vars

\* A successful AddItem has just inserted the only row of its owner, while
\* another owner holds rows too.
C4_Witness ==
    /\ call.op = "AddItem"
    /\ Succeeded(call)
    /\ call.productID # NilUUID
    /\ \E r \in cart_items :
          /\ r.owner_id = call.ownerID
          /\ r.product_id = call.productID
          /\ r.created_at = now - 1
          /\ \A t \in cart_items : t.owner_id = call.ownerID => t = r
    /\ \E t \in cart_items : t.owner_id # call.ownerID

(* ------------------------------------------------------------------ *)
(* C5  last write wins                                                 *)
(* ------------------------------------------------------------------ *)

\* C5: two successive successful AddItem calls with the same (owner, product)
\* and different prices leave exactly one row for that key, carrying the
\* amount and the currency of the second call; a GetCart(owner) that returns
\* a cart shows the product once, at the second price.
C5_LastWriteWins ==
    [][ ( /\ call.op = "AddItem" /\ Succeeded(call)
          /\ call'.op = "AddItem" /\ Succeeded(call')
          /\ call'.ownerID = call.ownerID
          /\ call'.productID = call.productID
          /\ call'.price # call.price )
          => /\ Cardinality(RowsAt(cart_items', call'.ownerID, call'.productID)) = 1
             /\ \A r \in RowsAt(cart_items', call'.ownerID, call'.productID) :
                   /\ r.price_amount = call'.price.Amount
                   /\ r.price_currency = UnitString(call'.price.Currency)
             /\ \A g \in GetCartAnswers(cart_items', call'.ownerID) :
                   Succeeded(g) =>
                     /\ Cardinality({ i \in 1..Len(g.cart.Items) :
                                        g.cart.Items[i].ProductID = call'.productID }) = 1
                     /\ \A i \in 1..Len(g.cart.Items) :
                           g.cart.Items[i].ProductID = call'.productID
                             => g.cart.Items[i].Price = call'.price ]_vars

\* A successful AddItem found its key written by an earlier statement and the
\* single row of the key now carries this call's price.
C5_Witness ==
    /\ call.op = "AddItem"
    /\ Succeeded(call)
    /\ call.ownerID = "bob"
    /\ \E r \in RowsAt(cart_items, call.ownerID, call.productID) :
          /\ r.created_at < now - 1
          /\ r.price_amount = call.price.Amount
          /\ r.price_currency = UnitString(call.price.Currency)

(* ------------------------------------------------------------------ *)
(* C6  the creation timestamp survives upserts                         *)
(* ------------------------------------------------------------------ *)

SameKey(r, t) == r.owner_id = t.owner_id /\ r.product_id = t.product_id

\* C6: an AddItem on a key that already has a row changes only the row's
\* price_amount and price_currency; and no step at all changes the created_at
\* of a key that has a row before and after it, so the timestamp of the first
\* insert stays until the row is deleted.
C6_CreatedAtKept ==
    [][ /\ ( /\ call'.op = "AddItem"
             /\ Succeeded(call')
             /\ RowsAt(cart_items, call'.ownerID, call'.productID) # {} )
             => /\ RowsAt(cart_items', call'.ownerID, call'.productID)
                   = { [r EXCEPT !.price_amount   = call'.price.Amount,
                                 !.price_currency = UnitString(call'.price.Currency)] :
                         r \in RowsAt(cart_items, call'.ownerID, call'.productID) }
                /\ Cardinality(cart_items') = Cardinality(cart_items)
        /\ \A r \in cart_items, t \in cart_items' :
              SameKey(r, t) => t.created_at = r.created_at ]_vars

\* An upsert has overwritten the price of a row inserted two statements
\* earlier or more; its created_at is still the old one.
C6_Witness ==
    /\ call.op = "AddItem"
    /\ Succeeded(call)
    /\ \E r \in RowsAt(cart_items, call.ownerID, call.productID) :
          /\ r.created_at = 1
          /\ now >= 3
          /\ r.price_amount = call.price.Amount
    /\ Cardinality(cart_items) = 1

(* ------------------------------------------------------------------ *)
(* C7  delete of a stored key                                          *)
(* ------------------------------------------------------------------ *)

\* C7: a DeleteItem(owner, product) that reaches the store for a key holding
\* a row returns (true, nil) and removes the row, so that GetCart(owner) on
\* the table it leaves returns no item with that product; a key without a row
\* gets one only by an AddItem of that key (or by a writer other than the
\* adapter) and every GetCart returns only products that have a row, so the
\* product shows again only after such an insert.
C7_DeleteExisting ==
    [][ /\ ( /\ call'.op = "DeleteItem"
             /\ Served(call')
             /\ RowsAt(cart_items, call'.ownerID, call'.productID) # {} )
             => /\ call'.deleted = TRUE
                /\ Succeeded(call')
                /\ RowsAt(cart_items', call'.ownerID, call'.productID) = {}
                /\ \A g \in GetCartAnswers(cart_items', call'.ownerID) :
                      call'.productID \notin ProductsOf(g)
        /\ \A t \in cart_items' :
              RowsAt(cart_items, t.owner_id, t.product_id) = {}
                => \/ /\ call'.op = "AddItem"
                      /\ call'.ownerID = t.owner_id
                      /\ call'.productID = t.product_id
                   \/ call'.op = "none"
        /\ call'.op = "GetCart"
              => \A p \in ProductsOf(call') :
                    RowsAt(cart_items', call'.ownerID, p) # {} ]_vars

\* A delete returned true and its owner still holds another product.
C7_Witness ==
    /\ call.op = "DeleteItem"
    /\ call.deleted = TRUE
    /\ Succeeded(call)
    /\ RowsAt(cart_items, call.ownerID, call.productID) = {}
    /\ \E r \in cart_items : r.owner_id = call.ownerID

(* ------------------------------------------------------------------ *)
(* C8  delete of a key that holds no row                               *)
(* ------------------------------------------------------------------ *)

\* C8: a DeleteItem(owner, product) that reaches the store for a key holding
\* no row returns (false, nil) and leaves the table as it was; a row of the
\* same product under another owner stays.
C8_DeleteMissing ==
    [][ ( /\ call'.op = "DeleteItem"
          /\ Served(call')
          /\ RowsAt(cart_items, call'.ownerID, call'.productID) = {} )
          => /\ call'.deleted = FALSE
             /\ Succeeded(call')
             /\ cart_items' = cart_items ]_vars

\* A delete under the wrong owner: it returned false and the holder's row of
\* that product is still there.
C8_Witness ==
    /\ call.op = "DeleteItem"
    /\ Served(call)
    /\ call.deleted = FALSE
    /\ \E r \in cart_items :
          r.product_id = call.productID /\ r.owner_id # call.ownerID

(* ------------------------------------------------------------------ *)
(* C9  the empty cart                                                  *)
(* ------------------------------------------------------------------ *)

\* C9: GetCart for a non-empty owner with no stored rows returns no error and
\* a Cart whose OwnerID is the requested owner and whose Items are empty.
C9_EmptyCart ==
    ( /\ call.op = "GetCart"
      /\ Served(call)
      /\ RowsOf(cart_items, call.ownerID) = {} )
      => /\ Succeeded(call)
         /\ call.cart.OwnerID = call.ownerID
         /\ call.cart.Items = <<>>

\* GetCart returned an empty cart for one owner while another holds rows.
C9_Witness ==
    /\ call.op = "GetCart"
    /\ call.ownerID # ""
    /\ Succeeded(call)
    /\ call.cart = [OwnerID |-> call.ownerID, Items |-> <<>>]
    /\ cart_items # {}

(* ------------------------------------------------------------------ *)
(* C10  a row whose currency does not parse                            *)
(* ------------------------------------------------------------------ *)

\* The owner's rows whose price_currency ParseISO rejects.
BadRows(table, ownerID) ==
    { r \in table : r.owner_id = ownerID /\ ParseISO(r.price_currency).err # NoErr }

\* C10: when a row stored for the owner carries a currency code that does not
\* parse, a GetCart whose query did not fail returns a mapping error and a
\* Cart with no items: no row is skipped and no mapped row is returned.
C10_BadCurrencyAborts ==
    ( /\ call.op = "GetCart"
      /\ Served(call)
      /\ BadRows(cart_items, call.ownerID) # {} )
      => /\ call.err # NoErr
         /\ Head(call.err) = "mapGetCartRowsToDomain"
         /\ call.cart.Items = <<>>

\* GetCart failed on an owner that holds a row that maps and a row that does
\* not.
C10_Witness ==
    /\ call.op = "GetCart"
    /\ call.err # NoErr
    /\ Head(call.err) = "mapGetCartRowsToDomain"
    /\ BadRows(cart_items, call.ownerID) # {}
    /\ \E r \in cart_items :
          r.owner_id = call.ownerID /\ r \notin BadRows(cart_items, call.ownerID)

(* ------------------------------------------------------------------ *)
(* C11..C20                                                            *)
(* ------------------------------------------------------------------ *)

C19_QueryErrorWrapped ==
    call.qerr # NoErr =>
        /\ call.op \in Methods
        /\ call.queries = 1
        /\ call.err = <<"q." \o call.op>> \o call.qerr
        /\ call.cart.Items = <<>>
        /\ call.deleted = FALSE

\* GetCart has had its query fail on a table that holds a row of the owner.
C19_Witness ==
    /\ call.op = "GetCart"
    /\ call.qerr = Errorf("context canceled")
    /\ call.err = <<"q.GetCart", "context canceled">>
    /\ RowsOf(cart_items, call.ownerID) # {}

\* The items of a returned cart, by position.
ItemAt(c, i) == c.cart.Items[i]

ReturnedWithTx == wtx.pc = "done" /\ tx.mine

\* C12 as stated: for every transaction withTx opened, exactly one of Commit
\* and Rollback has been invoked on it when withTx returns.
C12_ExactlyOneInvoked ==
    ReturnedWithTx => wtx.commits + wtx.rollbacks = 1

\* C12, amended: when withTx returns, the transaction it opened has been ended
\* exactly one way (committed when withTx returns no error, rolled back
\* otherwise); Commit and Rollback have each been invoked at most once and at
\* least one of them has, both of them exactly when Commit returned an error.
C12_EndedExactlyOnce ==
    ReturnedWithTx =>
        /\ wtx.commits <= 1
        /\ wtx.rollbacks <= 1
        /\ wtx.commits + wtx.rollbacks >= 1
        /\ (wtx.commits + wtx.rollbacks = 2) <=> (wtx.commitErr # NoErr)
        /\ tx.state \in {"committed", "rolledback"}
        /\ (tx.state = "committed") <=> (wtx.txErr = NoErr)

\* Commit has failed with the context live, and Rollback was invoked after it.
C12_Witness ==
    /\ ReturnedWithTx
    /\ wtx.canceledAt = "never"
    /\ wtx.commitErr # NoErr
    /\ wtx.commits = 1
    /\ wtx.rollbacks = 1

\* C13: when withTx opened a transaction and the unit of work returned an
\* error, Commit has not been invoked, Rollback has been invoked, and
\* errors.Is finds the unit of work's error in the error withTx returns.
C13_FnErrorRollsBack ==
    (ReturnedWithTx /\ wtx.fnErr # NoErr) =>
        /\ wtx.commits = 0
        /\ wtx.rollbacks = 1
        /\ Is(wtx.txErr, wtx.fnErr)

\* The unit of work has failed after a write and Rollback has failed too.
C13_Witness ==
    /\ ReturnedWithTx
    /\ wtx.fnErr = Errorf("not found")
    /\ Len(wtx.writes) >= 1
    /\ wtx.rollbackErr # NoErr
    /\ wtx.txErr # wtx.fnErr

\* C14: on the nil-pool path the unit of work is invoked once, with the q that
\* was passed in, and withTx invokes no Begin, Commit or Rollback, whether the
\* unit of work succeeds or fails; the caller's transaction stays open.
C14_NilPoolPassThrough ==
    (wtx.pc \in {"fn", "done"} /\ wtx.pool = NilPool) =>
        /\ wtx.fnCalls = 1
        /\ wtx.fnArg = "q"
        /\ wtx.begins = 0
        /\ wtx.commits = 0
        /\ wtx.rollbacks = 0
        /\ ~tx.mine
        /\ tx.state = "open"

\* On the nil-pool path the unit of work has written and then failed.
C14_Witness ==
    /\ wtx.pc = "done"
    /\ wtx.pool = NilPool
    /\ Len(wtx.writes) >= 1
    /\ wtx.fnErr # NoErr
    /\ wtx.txErr = wtx.fnErr

\* The error that made withTx roll back: the unit of work's, else Commit's.
OriginalErr == IF wtx.fnErr # NoErr THEN wtx.fnErr ELSE wtx.commitErr

\* Rollback was invoked after a failure and returned an error.
RollbackFailed ==
    /\ ReturnedWithTx
    /\ OriginalErr # NoErr
    /\ wtx.rollbacks = 1
    /\ wtx.rollbackErr # NoErr

\* C15 as stated: when the unit of work or Commit fails and Rollback fails
\* too, the error withTx returns contains both the original error and the
\* rollback error.
C15_BothErrorsKept ==
    RollbackFailed =>
        /\ Is(wtx.txErr, OriginalErr)
        /\ Is(wtx.txErr, wtx.rollbackErr)

\* C15, amended: the original error is always in the error withTx returns and
\* the rollback error never stands in its place; a rollback error other than
\* ErrTxClosed is joined to it under "tx.Rollback", while ErrTxClosed (what
\* Rollback returns after a failed Commit) is dropped.
C15_RollbackErrJoinedUnlessClosed ==
    RollbackFailed =>
        /\ Is(wtx.txErr, OriginalErr)
        /\ OriginalErr \in Joined(wtx.txErr)
        /\ IF Is(wtx.rollbackErr, ErrTxClosed)
           THEN wtx.txErr = OriginalErr
           ELSE /\ Is(wtx.txErr, wtx.rollbackErr)
                /\ wtx.txErr = Join(OriginalErr, Wrap("tx.Rollback", wtx.rollbackErr))
        /\ (wtx.commitErr # NoErr) => Is(wtx.rollbackErr, ErrTxClosed)

\* The unit of work has failed with the context live, Rollback has failed
\* with a connection error, and both are in the returned error.
C15_Witness ==
    /\ RollbackFailed
    /\ wtx.canceledAt = "never"
    /\ wtx.fnErr = Errorf("not found")
    /\ wtx.rollbackErr = Errorf("unexpected EOF")
    /\ wtx.txErr = <<"not found", "\n", "tx.Rollback", "unexpected EOF">>

\* C16: when the context was cancelled while withTx had its transaction open
\* (during the unit of work or before Commit), then on return the transaction
\* is rolled back, nothing of it is in the table, and errors.Is finds
\* context.Canceled in the error withTx returns.
C16_CancelRollsBack ==
    (ReturnedWithTx /\ wtx.canceledAt \in {"fn", "commit"}) =>
        /\ tx.state = "rolledback"
        /\ cart_items = tx.base
        /\ wtx.rollbacks = 1
        /\ Is(wtx.txErr, Canceled)

\* The context was cancelled during a unit of work that had written; the unit
\* of work then returned nil, so it is Commit that met the cancellation.
C16_Witness ==
    /\ ReturnedWithTx
    /\ wtx.canceledAt = "fn"
    /\ Len(wtx.writes) >= 1
    /\ wtx.fnErr = NoErr
    /\ wtx.commitErr = Canceled
    /\ tx.state = "rolledback"

\* The price the unit of work wrote last under the key of its i-th write.
LastWritten(i) ==
    LET same == { j \in 1..Len(wtx.writes) :
                    /\ wtx.writes[j].OwnerID = wtx.writes[i].OwnerID
                    /\ wtx.writes[j].ProductID = wtx.writes[i].ProductID }
        last == CHOOSE j \in same : \A k \in same : k <= j
    IN wtx.writes[last]

\* C17: a unit of work run in a transaction withTx opened is atomic.  While
\* the transaction is open the table is as it was at Begin; when withTx
\* returns an error the table is still as it was at Begin; when it returns
\* nil every key the unit of work wrote holds one row with the price written
\* last, and every other row is as it was.
C17_Atomic ==
    /\ (tx.mine /\ tx.state = "open") => cart_items = tx.base
    /\ (ReturnedWithTx /\ wtx.txErr # NoErr) => cart_items = tx.base
    /\ (ReturnedWithTx /\ wtx.txErr = NoErr) =>
          /\ \A i \in 1..Len(wtx.writes) :
                \E r \in cart_items :
                    /\ RowsAt(cart_items, wtx.writes[i].OwnerID, wtx.writes[i].ProductID) = {r}
                    /\ r.price_amount = LastWritten(i).PriceAmount
                    /\ r.price_currency = LastWritten(i).PriceCurrency
          /\ \A r \in tx.base :
                (\A i \in 1..Len(wtx.writes) :
                    ~(/\ wtx.writes[i].OwnerID = r.owner_id
                      /\ wtx.writes[i].ProductID = r.product_id))
                => r \in cart_items

\* Two writes to different keys, then Commit failed: neither is in the table.
C17_Witness ==
    /\ ReturnedWithTx
    /\ Len(wtx.writes) = 2
    /\ wtx.writes[1].ProductID # wtx.writes[2].ProductID
    /\ wtx.commitErr # NoErr
    /\ cart_items = {}

\* The callers whose AddItem has returned after its statement ran.
Applied ==
    { g \in Callers : inflight[g].pc = "returned" /\ Served(inflight[g].call) }

\* Two callers wrote the same (owner, product) key.
SameTarget(g, h) ==
    /\ inflight[g].ownerID = inflight[h].ownerID
    /\ inflight[g].item.ProductID = inflight[h].item.ProductID

\* C18: however concurrent AddItem calls interleave, every call that passes
\* validation and whose query does not fail returns nil, and each key written
\* holds exactly one row, whose amount and currency are both those of the
\* call the store ran last on that key.
C18_ConcurrentUpserts ==
    /\ \A g \in Callers :
          (/\ inflight[g].pc = "returned"
           /\ inflight[g].ownerID # ""
           /\ inflight[g].call.qerr = NoErr) => inflight[g].call.err = NoErr
    /\ \A g \in Applied :
          LET same == { h \in Applied : SameTarget(g, h) }
              last == CHOOSE h \in same :
                        \A k \in same : inflight[k].appliedAt <= inflight[h].appliedAt
              rows == RowsAt(cart_items, inflight[g].ownerID, inflight[g].item.ProductID)
          IN /\ Cardinality(rows) = 1
             /\ \A r \in rows :
                   /\ r.price_amount = inflight[last].item.Price.Amount
                   /\ r.price_currency = UnitString(inflight[last].item.Price.Currency)

\* Both callers were in flight together on one key with different prices;
\* both have returned nil and the row has the price of the one that ran last.
C18_Witness ==
    /\ Applied = Callers
    /\ SameTarget("g1", "g2")
    /\ inflight["g1"].item.Price # inflight["g2"].item.Price
    /\ inflight["g2"].overlapped
    /\ inflight["g2"].appliedAt < inflight["g1"].appliedAt
    /\ \E r \in cart_items : r.price_amount = inflight["g1"].item.Price.Amount

(* ------------------------------------------------------------------ *)
(* C21..C30                                                            *)
(* ------------------------------------------------------------------ *)

\* C26: when withTx opened a transaction, the unit of work succeeded and
\* Commit returned an error, withTx returns the zero value, not the unit of
\* work's result, with the commit error, and Rollback was invoked on the
\* transaction after Commit.
C26_CommitFailureReturnsZero ==
    (ReturnedWithTx /\ wtx.fnErr = NoErr /\ wtx.commitErr # NoErr) =>
        /\ wtx.result = zero
        /\ wtx.result # wtx.fnResult
        /\ Is(wtx.txErr, wtx.commitErr)
        /\ wtx.commits = 1
        /\ wtx.rollbacks = 1

\* A unit of work wrote and returned its result, then Commit failed.
C26_Witness ==
    /\ ReturnedWithTx
    /\ Len(wtx.writes) >= 1
    /\ wtx.fnResult = "result"
    /\ wtx.commitErr = Errorf("unexpected EOF")
    /\ wtx.result = zero
    /\ wtx.rollbacks = 1

\* C27: when pool.Begin fails, withTx returns the zero value and the Begin
\* error as it is, the unit of work is not invoked, and neither Commit nor
\* Rollback is.
C27_BeginFailure ==
    (wtx.pc \in {"fn", "commit", "defer", "done"} /\ wtx.beginErr # NoErr) =>
        /\ wtx.pc = "done"
        /\ wtx.result = zero
        /\ wtx.txErr = wtx.beginErr
        /\ wtx.fnCalls = 0
        /\ wtx.commits = 0
        /\ wtx.rollbacks = 0
        /\ tx.state = "none"

\* pool.Begin has failed with a connection error on a live context.
C27_Witness ==
    /\ wtx.pc = "done"
    /\ wtx.begins = 1
    /\ wtx.beginErr = Errorf("unexpected EOF")
    /\ wtx.txErr = Errorf("unexpected EOF")
    /\ wtx.fnCalls = 0

\* C28: when the Rollback run after a failure returns ErrTxClosed, withTx
\* returns exactly the error that triggered it, with nothing joined; any
\* other rollback error is joined to it.
C28_ErrTxClosedSuppressed ==
    (ReturnedWithTx /\ wtx.rollbacks = 1 /\ wtx.rollbackErr # NoErr) =>
        IF Is(wtx.rollbackErr, ErrTxClosed)
        THEN /\ wtx.txErr = OriginalErr
             /\ Joined(wtx.txErr) = {OriginalErr}
        ELSE /\ wtx.txErr = Join(OriginalErr, Wrap("tx.Rollback", wtx.rollbackErr))
             /\ Joined(wtx.txErr) = {OriginalErr, Wrap("tx.Rollback", wtx.rollbackErr)}

\* Commit met the cancellation, Rollback then found the transaction closed,
\* and withTx returned the cancellation alone.
C28_Witness ==
    /\ ReturnedWithTx
    /\ wtx.commitErr = Canceled
    /\ wtx.rollbackErr = ErrTxClosed
    /\ wtx.txErr = Canceled

\* C29: on the fresh-pool path a non-nil error from withTx comes with the
\* zero value, whatever result the unit of work returned next to its error;
\* on the nil-pool path withTx returns the unit of work's (result, error).
C29_ZeroOnError ==
    /\ (wtx.pc = "done" /\ wtx.pool # NilPool /\ wtx.txErr # NoErr)
          => wtx.result = zero
    /\ (wtx.pc = "done" /\ wtx.pool = NilPool)
          => (wtx.result = wtx.fnResult /\ wtx.txErr = wtx.fnErr)

\* On the fresh-pool path the unit of work returned a result next to its
\* error, and withTx returned the zero value.
C29_Witness ==
    /\ ReturnedWithTx
    /\ wtx.pool # NilPool
    /\ wtx.fnResult = "partial"
    /\ wtx.fnErr # NoErr
    /\ wtx.result = zero

\* A returned item and a stored row that carry the same data.
ItemOfRow(it, r) ==
    /\ it.ProductID = r.product_id
    /\ it.Price.Amount = r.price_amount
    /\ UnitString(it.Price.Currency) = r.price_currency
    /\ it.CreatedAt = r.created_at

\* C21: carts are isolated by owner.  A GetCart(o) that returns a cart returns
\* one item per row stored under o and nothing else, whatever other owners
\* hold (the same product included); an AddItem or DeleteItem under one owner
\* leaves the rows of every other owner, hence what GetCart returns for them,
\* as they were.
C21_OwnerIsolation ==
    [][ /\ (call'.op = "GetCart" /\ Served(call') /\ Succeeded(call')) =>
              /\ call'.cart.OwnerID = call'.ownerID
              /\ Len(call'.cart.Items) = Cardinality(RowsOf(cart_items', call'.ownerID))
              /\ \A i \in 1..Len(call'.cart.Items) :
                    \E r \in RowsOf(cart_items', call'.ownerID) :
                        ItemOfRow(ItemAt(call', i), r)
              /\ \A r \in RowsOf(cart_items', call'.ownerID) :
                    \E i \in 1..Len(call'.cart.Items) :
                        ItemOfRow(ItemAt(call', i), r)
        /\ (call'.op \in {"AddItem", "DeleteItem"}) =>
              \A o \in OwnerIDs \ {call'.ownerID} :
                  RowsOf(cart_items', o) = RowsOf(cart_items, o) ]_vars

\* Two owners hold the same product at different prices, and GetCart for one
\* of them has returned its one item.
C21_Witness ==
    /\ call.op = "GetCart"
    /\ Succeeded(call)
    /\ Len(call.cart.Items) = 1
    /\ \E r \in cart_items, t \in cart_items :
          /\ r.owner_id = call.ownerID
          /\ t.owner_id # call.ownerID
          /\ t.product_id = r.product_id
          /\ t.price_amount # r.price_amount
          /\ ItemOfRow(ItemAt(call, 1), r)

\* C22: deletion is idempotent.  On every table the adapter can hold, for
\* every non-empty owner and non-nil product, a DeleteItem followed at once by
\* the same DeleteItem (neither query failing) leaves the table the first call
\* left, the second call returns (false, nil), and the first returns true only
\* when the row was there.
C22_DeleteIdempotent ==
    \A o \in OwnerIDs \ {""}, p \in ProductIDs \ {NilUUID} :
        LET first  == DeleteItemCall(cart_items, o, p, NoErr)
            second == DeleteItemCall(first.table, o, p, NoErr) IN
        /\ second.table = first.table
        /\ second.call.deleted = FALSE
        /\ second.call.err = NoErr
        /\ second.call.queries = 1
        /\ first.call.deleted <=> RowsAt(cart_items, o, p) # {}
        /\ first.call.err = NoErr

\* DeleteItem has just returned true, other rows remain, and the same call
\* made again finds nothing to delete.
C22_Witness ==
    /\ call.op = "DeleteItem"
    /\ call.deleted
    /\ cart_items # {}
    /\ LET again == DeleteItemCall(cart_items, call.ownerID, call.productID, NoErr) IN
          /\ again.call.deleted = FALSE
          /\ again.table = cart_items

\* The call was turned away by one of the method's own argument checks.
ValidationFailed(c) ==
    c.err \in {Errorf("ownerID is empty"), Errorf("productID is empty")}

\* The arguments pass the checks the method makes before its query.
PassesValidation(c) ==
    /\ c.ownerID # ""
    /\ c.op = "DeleteItem" => c.productID # NilUUID

C25_OwnerCheckedFirst ==
    (/\ call.op \in {"AddItem", "DeleteItem"}
     /\ call.ownerID = ""
     /\ call.productID = NilUUID) =>
        /\ call.err = Errorf("ownerID is empty")
        /\ call.err # Errorf("productID is empty")
        /\ call.queries = 0
        /\ call.deleted = FALSE

\* DeleteItem has returned for an empty owner and a nil product id, over a
\* table that holds rows.
C25_Witness ==
    /\ call.op = "DeleteItem"
    /\ call.ownerID = ""
    /\ call.productID = NilUUID
    /\ call.err = Errorf("ownerID is empty")
    /\ cart_items # {}

\* The rows of a table stored under another key than (ownerID, productID).
RowsElsewhere(table, ownerID, productID) ==
    { r \in table : ~(r.owner_id = ownerID /\ r.product_id = productID) }

\* C30: an AddItem(owner, item) step changes at most the one row keyed by
\* (owner, item.ProductID): rows under every other key, the owner's other
\* products included, are after the step what they were before it, and the
\* key holds at most one row.  A GetCart step changes no row.
C30_AddItemFrame ==
    [][ /\ call'.op = "AddItem" =>
              /\ RowsElsewhere(cart_items', call'.ownerID, call'.productID)
                    = RowsElsewhere(cart_items, call'.ownerID, call'.productID)
              /\ Cardinality(RowsAt(cart_items', call'.ownerID, call'.productID)) <= 1
              /\ ~Succeeded(call') => cart_items' = cart_items
        /\ call'.op = "GetCart" => cart_items' = cart_items ]_vars

\* AddItem has stored a second product under an owner, at another price than
\* the row the owner already held, and that earlier row stands.
C30_Witness ==
    /\ call.op = "AddItem"
    /\ Succeeded(call)
    /\ \E r \in RowsAt(cart_items, call.ownerID, call.productID) :
          /\ r.price_amount = call.price.Amount
          /\ r.created_at = now - 1
          /\ \E t \in RowsOf(cart_items, call.ownerID) :
                /\ t.product_id # r.product_id
                /\ t.price_amount # r.price_amount
                /\ t.created_at < r.created_at

\* C24: AddItem checks no amount.  Called with a non-empty owner and a
\* non-nil product id, it accepts whatever amount the item carries (zero and
\* a negative one included) whenever its query does not fail, and stores
\* that amount under the key; a GetCart that returns a cart returns, for each
\* item, the amount stored in its row.
C24_AnyAmountAccepted ==
    /\ (/\ call.op = "AddItem"
         /\ call.ownerID # ""
         /\ call.productID # NilUUID
         /\ call.qerr = NoErr) =>
            /\ Succeeded(call)
            /\ call.queries = 1
            /\ \E r \in RowsAt(cart_items, call.ownerID, call.productID) :
                  r.price_amount = call.price.Amount
            /\ \A g \in GetCartAnswers(cart_items, call.ownerID) :
                  /\ Succeeded(g)
                  /\ \E i \in 1..Len(g.cart.Items) :
                        /\ ItemAt(g, i).ProductID = call.productID
                        /\ ItemAt(g, i).Price.Amount = call.price.Amount
    /\ (call.op = "GetCart" /\ Served(call) /\ Succeeded(call)) =>
            \A i \in 1..Len(call.cart.Items) :
                \E r \in RowsAt(cart_items, call.ownerID, ItemAt(call, i).ProductID) :
                    r.price_amount = ItemAt(call, i).Price.Amount

\* GetCart has returned a cart that holds an item of negative amount and an
\* item of amount zero.
C24_Witness ==
    /\ call.op = "GetCart"
    /\ Succeeded(call)
    /\ \E i, j \in 1..Len(call.cart.Items) :
          /\ ItemAt(call, i).Price.Amount < 0
          /\ ItemAt(call, j).Price.Amount = 0
====
